---------------------------- MODULE Spec2Model ----------------------------
(***************************************************************************)
(* State-machine model of the dataset-curation scripts:                    *)
(*   scripts/dedupe_by_threshold.py  (DuplicateGrouper)   -> SpecDedupe    *)
(*   scripts/assign_clusters.py      (ClusterAssigner)    -> SpecAssign    *)
(*   scripts/split.py                (SplitAllocator)     -> SpecSplit     *)
(*   split.py on arbitrary assignment tables              -> SpecSplitTables *)
(*   split.py run to completion under fair scheduling     -> SpecSplitLive *)
(*   resolve_cache_paths of both scripts                  -> SpecCache     *)
(* Similarities and thresholds are in hundredths (0.75 is 75).             *)
(***************************************************************************)
EXTENDS Integers, Sequences, FiniteSets, TLC

VARIABLES
    \* ---- dedupe_by_threshold.py ----
    n,            \* number of rows of `real`
    sim,          \* inner products of the rows, by pair <<a, b>>, a < b
    rs_inclusive, \* whether range_search reports a similarity equal to the radius
    rs_order,     \* order in which range_search lists the neighbours of a query
    threshold,    \* args.threshold of the invocation in progress
    i,            \* loop variable of dedupe_range_search
    assigned,     \* assigned[j]
    groups,       \* groups
    group_sims,   \* group_sims
    dpc,          \* position of the invocation
    keep,         \* dedupe_keep.txt
    remove,       \* dedupe_remove.txt
    records,      \* rows of dedupe_groups.csv
    runs,         \* groups returned by the completed invocations, by threshold
    d_backend,    \* args.backend
    d_files,      \* the cache files that exist in cache_dir
    d_real_cache, \* real_cache of main
    d_loaded,     \* the cache files load_embeddings has read
    \* ---- assign_clusters.py ----
    real,         \* rows of the real embedding matrix
    unique,       \* rows of the unique embedding matrix
    chunk_size,   \* chunk_size of the call in progress
    start,        \* loop variable of compute_argmax_clusters
    best_idx,     \* best_idx
    best_sim,     \* best_sim
    apc,          \* position of the call
    aruns,        \* <<best_idx, best_sim>> returned by the completed calls, by chunk_size
    counts_only,  \* args.counts_only, as read at line 97
    assign_csv,   \* rows of cluster_assignments.csv
    counts_csv,   \* rows of cluster_counts.csv
    a_backend,    \* args.backend
    a_files,      \* the cache files that exist in cache_dir
    unique_cache, \* unique_cache of main
    real_cache,   \* real_cache of main
    a_loaded,     \* the cache files load_embeddings has read
    \* ---- split.py ----
    assign_rows,       \* rows of assignments_csv
    missing,           \* which input table lacks a required column
    seed,              \* args.seed
    rng,               \* state of the module-level random generator
    spc,               \* position of main
    cluster_to_images, \* result of build_cluster_to_images
    capped,            \* result of apply_caps
    allocation,        \* allocation
    counts,            \* counts
    day_counts,        \* day_counts
    night_counts,      \* night_counts
    day_clusters,      \* day_clusters
    night_clusters,    \* night_clusters
    pos,               \* index of the next element of the loop in progress
    trace,             \* the assignments made so far, in order
    out,               \* lines of train_capped.txt, val_capped.txt, test_capped.txt
    run,               \* number of the run of the script on this input
    prev_out           \* the files the previous run wrote

dedupeVars == <<n, sim, rs_inclusive, rs_order, threshold, i, assigned, groups,
                group_sims, dpc, keep, remove, records, runs, d_backend, d_files,
                d_real_cache, d_loaded>>

dedupeCacheVars == <<d_backend, d_files, d_real_cache, d_loaded>>

assignVars == <<real, unique, chunk_size, start, best_idx, best_sim, apc, aruns,
                counts_only, assign_csv, counts_csv, a_backend, a_files,
                unique_cache, real_cache, a_loaded>>

assignCacheVars == <<a_backend, a_files, unique_cache, real_cache, a_loaded>>

splitVars == <<assign_rows, missing, seed, rng, spc, cluster_to_images, capped,
               allocation, counts, day_counts, night_counts, day_clusters,
               night_clusters, pos, trace, out, run, prev_out>>

vars == <<dedupeVars, assignVars, splitVars>>

(***************************************************************************)
(* Bounds of the model.                                                    *)
(***************************************************************************)
MaxN == 4
\* most pairs of rows that are near-duplicates (similarity above the lowest level)
MaxNear == 4
\* most rows of the real and of the unique embedding matrix
MaxReal == 3
MaxUnique == 2
\* most clusters of a generated inventory
MaxClusters == 3
\* most rows of an arbitrary assignments table
MaxRows == 3
\* number of equal units the remaining night images of the header inventory
\* are cut into (a cluster is one or more units)
NightUnits == 5

\* similarity values the rows of `real` may have to each other (hundredths)
SimLevels == {50, 70, 95}
\* thresholds the script is invoked with; 75 is the default of --threshold
Thresholds == {70, 75}
\* the similarity of rows that are not near-duplicates at any threshold
LowSim == CHOOSE s \in SimLevels : \A t \in SimLevels : s <= t

(***************************************************************************)
(* dedupe_by_threshold.py                                                  *)
(***************************************************************************)
Pairs(k) == {p \in (0 .. k - 1) \X (0 .. k - 1) : p[1] < p[2]}

\* the literal 1.0 the representative is recorded with
RepSim == 100

\* inner product of rows a and b of the normalized matrix
SimOf(a, b) ==
    IF a = b THEN 100
    ELSE IF a < b THEN sim[<<a, b>>] ELSE sim[<<b, a>>]

Reverse(s) == [k \in 1 .. Len(s) |-> s[Len(s) + 1 - k]]

InRadius(s, radius) == IF rs_inclusive THEN s >= radius ELSE s > radius

\* I[lims[q]:lims[q+1]] and D[lims[q]:lims[q+1]] of index.range_search: the
\* neighbours of query q as <<index, similarity>>, the query itself included
RangeSearch(q, radius) ==
    LET all == [k \in 1 .. n |-> <<k - 1, SimOf(q, k - 1)>>]
        hit(e) == InRadius(e[2], radius)
        asc == SelectSeq(all, hit)
    IN  IF rs_order = "asc" THEN asc ELSE Reverse(asc)

KeepNeighbour_NoAssignedCheck(e, q, T, asg) == e[1] # q /\ e[2] >= T

KeepNeighbour_NoSelfSkip(e, q, T, asg) == e[2] >= T /\ ~asg[e[1]]

\* the neighbours the inner loop keeps (lines 62-67)
KeepNeighbour(e, q, T, asg) == e[1] # q /\ e[2] >= T /\ ~asg[e[1]]

Members_Inverted(q, T, asg) ==
    LET all == [k \in 1 .. n |-> <<k - 1, SimOf(q, k - 1)>>]
        far(e) == e[1] # q /\ e[2] < T /\ ~asg[e[1]]
    IN  SelectSeq(all, far)

Members(q, T, asg) ==
    LET keepIt(e) == KeepNeighbour(e, q, T, asg)
    IN  SelectSeq(RangeSearch(q, T), keepIt)

Group(q, T, asg) ==
    LET m == Members(q, T, asg) IN <<q>> \o [k \in 1 .. Len(m) |-> m[k][1]]

Sims_NoSeed(q, T, asg) ==
    LET m == Members(q, T, asg) IN [k \in 1 .. Len(m) |-> m[k][2]]

Sims(q, T, asg) ==
    LET m == Members(q, T, asg) IN <<RepSim>> \o [k \in 1 .. Len(m) |-> m[k][2]]

SeqSet(s) == {s[k] : k \in 1 .. Len(s)}

\* paths[j]
PathOf(j) == <<"real", j>>

\* a call of main with --threshold T
\* ---- resolve_cache_paths ----
\* choices of --backend
Backends == {"clip", "dinov2", "sscd"}

\* the cache of a kind ("real" or "unique") with the backend prefix, and the
\* legacy cache without it
Primary(kind) == <<kind, "primary">>
Legacy(kind) == <<kind, "legacy">>

ResolveOne_LegacyForAnyBackend(kind, backend, files) ==
    IF Primary(kind) \in files THEN Primary(kind)
    ELSE IF Legacy(kind) \in files THEN Legacy(kind)
    ELSE "FileNotFoundError"

\* the path chosen for one kind of cache, or the error raised
ResolveOne(kind, backend, files) ==
    IF Primary(kind) \in files THEN Primary(kind)
    ELSE IF backend = "clip" /\ Legacy(kind) \in files THEN Legacy(kind)
    ELSE "FileNotFoundError"

\* main, lines 112-113: resolve_cache_paths
DedupeResolve ==
    /\ dpc = "idle"
    /\ Thresholds \ DOMAIN runs # {}
    /\ LET r == ResolveOne("real", d_backend, d_files)
       IN  IF r = "FileNotFoundError"
           THEN dpc' = "FileNotFoundError" /\ UNCHANGED d_real_cache
           ELSE dpc' = "resolved" /\ d_real_cache' = r
    /\ UNCHANGED <<n, sim, rs_inclusive, rs_order, threshold, i, assigned, groups,
                   group_sims, keep, remove, records, runs, d_backend, d_files,
                   d_loaded>>

\* main, lines 114-117: load_embeddings, l2_normalize and the entry of
\* dedupe_range_search
DedupeStart ==
    /\ dpc = "resolved"
    /\ d_loaded' = d_loaded \cup {d_real_cache}
    /\ UNCHANGED <<d_backend, d_files, d_real_cache>>
    /\ \E T \in Thresholds :
         /\ T \notin DOMAIN runs
         /\ \A U \in Thresholds : U < T => U \in DOMAIN runs
         /\ threshold' = T
    /\ i' = 0
    /\ assigned' = [j \in 0 .. n - 1 |-> FALSE]
    /\ groups' = <<>>
    /\ group_sims' = <<>>
    /\ keep' = <<>>
    /\ remove' = <<>>
    /\ records' = <<>>
    /\ dpc' = "loop"
    /\ UNCHANGED <<n, sim, rs_inclusive, rs_order, runs>>

\* one iteration of `for i in range(n)` at an assigned index: continue
DedupeSkip ==
    /\ dpc = "loop"
    /\ i < n
    /\ assigned[i]
    /\ i' = i + 1
    /\ UNCHANGED dedupeCacheVars
    /\ UNCHANGED <<n, sim, rs_inclusive, rs_order, threshold, assigned, groups,
                   group_sims, dpc, keep, remove, records, runs>>

\* one iteration of `for i in range(n)` at an unassigned index
DedupeVisit ==
    /\ dpc = "loop"
    /\ i < n
    /\ ~assigned[i]
    /\ LET group == Group(i, threshold, assigned)
           sims == Sims(i, threshold, assigned)
       IN  /\ assigned' = [j \in 0 .. n - 1 |->
                             IF j \in SeqSet(group) THEN TRUE ELSE assigned[j]]
           /\ groups' = Append(groups, group)
           /\ group_sims' = Append(group_sims, sims)
    /\ i' = i + 1
    /\ UNCHANGED dedupeCacheVars
    /\ UNCHANGED <<n, sim, rs_inclusive, rs_order, threshold, dpc, keep, remove,
                   records, runs>>

\* return groups, group_sims
DedupeReturn ==
    /\ dpc = "loop"
    /\ i = n
    /\ dpc' = "write"
    /\ UNCHANGED dedupeCacheVars
    /\ UNCHANGED <<n, sim, rs_inclusive, rs_order, threshold, i, assigned, groups,
                   group_sims, keep, remove, records, runs>>

\* the rows write_outputs records for group gid
GroupRecords(gid, idxs, sims) ==
    [k \in 1 .. (IF Len(idxs) < Len(sims) THEN Len(idxs) ELSE Len(sims)) |->
        [group_id |-> gid,
         representative |-> PathOf(idxs[1]),
         member_path |-> PathOf(idxs[k]),
         similarity_to_rep |-> sims[k],
         is_representative |-> IF k = 1 THEN 1 ELSE 0]]

RECURSIVE Flatten(_)
Flatten(ss) == IF ss = <<>> THEN <<>> ELSE Head(ss) \o Flatten(Tail(ss))

\* keep of write_outputs: the path of idxs[0] of every group (lines 81-83)
KeepList(gs) == [g \in 1 .. Len(gs) |-> PathOf(gs[g][1])]

RemoveList_AllMembers(gs) ==
    Flatten([g \in 1 .. Len(gs) |-> [k \in 1 .. Len(gs[g]) |-> PathOf(gs[g][k])]])

\* remove of write_outputs: the paths of the members with k > 0 (lines 94-95)
RemoveList(gs) ==
    Flatten([g \in 1 .. Len(gs) |->
                [k \in 1 .. Len(gs[g]) - 1 |-> PathOf(gs[g][k + 1])]])

\* write_outputs
WriteOutputs ==
    /\ dpc = "write"
    /\ keep' = KeepList(groups)
    /\ remove' = RemoveList(groups)
    /\ records' = Flatten([g \in 1 .. Len(groups) |->
                    GroupRecords(g, groups[g], group_sims[g])])
    /\ runs' = [T \in DOMAIN runs \cup {threshold} |->
                    IF T = threshold THEN groups ELSE runs[T]]
    /\ dpc' = "idle"
    /\ UNCHANGED dedupeCacheVars
    /\ UNCHANGED <<n, sim, rs_inclusive, rs_order, threshold, i, assigned, groups,
                   group_sims>>

\* a cache directory that holds the cache of the default backend
DedupeCachePresent ==
    /\ d_backend = "sscd"
    /\ d_files = {Primary("real")}

DedupeInputs ==
    /\ DedupeCachePresent
    /\ n \in 0 .. MaxN
    /\ sim \in [Pairs(n) -> SimLevels]
    /\ Cardinality({p \in Pairs(n) : sim[p] # LowSim}) <= MaxNear
    /\ rs_inclusive \in BOOLEAN
    /\ rs_order \in {"asc", "desc"}

\* no input: the script is not run
DedupeNoInputs ==
    /\ DedupeCachePresent
    /\ n = 0
    /\ sim = <<>>
    /\ rs_inclusive = TRUE
    /\ rs_order = "asc"

DedupeLocals ==
    /\ d_real_cache = "unresolved"
    /\ d_loaded = {}
    /\ threshold = 0
    /\ i = 0
    /\ assigned = [j \in 0 .. n - 1 |-> FALSE]
    /\ groups = <<>>
    /\ group_sims = <<>>
    /\ keep = <<>>
    /\ remove = <<>>
    /\ records = <<>>
    /\ runs = <<>>

DedupeStartState == DedupeLocals /\ dpc = "idle"

\* the script is not run at all
DedupeOff == DedupeNoInputs /\ DedupeLocals /\ dpc = "off"

\* any backend and any set of cache files, with a cache of two near-duplicate
\* images
DedupeCacheInputs ==
    /\ d_backend \in Backends
    /\ d_files \in SUBSET {Primary("real"), Legacy("real")}
    /\ n = 2
    /\ sim = [p \in Pairs(2) |-> 95]
    /\ rs_inclusive = TRUE
    /\ rs_order = "asc"

NextDedupe ==
    \/ DedupeResolve /\ UNCHANGED <<assignVars, splitVars>>
    \/ DedupeStart /\ UNCHANGED <<assignVars, splitVars>>
    \/ DedupeSkip /\ UNCHANGED <<assignVars, splitVars>>
    \/ DedupeVisit /\ UNCHANGED <<assignVars, splitVars>>
    \/ DedupeReturn /\ UNCHANGED <<assignVars, splitVars>>
    \/ WriteOutputs /\ UNCHANGED <<assignVars, splitVars>>

(***************************************************************************)
(* assign_clusters.py                                                      *)
(***************************************************************************)
\* components of the embedding vectors
Comp == {0, 1}
Vec2 == Comp \X Comp
Vec3 == Comp \X Comp \X Comp

SeqsUpTo(S, lo, hi) == UNION {[1 .. k -> S] : k \in lo .. hi}

\* contents np.empty may leave in an entry that is never written
Garbage == {-1, -2}

RECURSIVE DotTo(_, _, _)
DotTo(u, v, k) == IF k = 0 THEN 0 ELSE DotTo(u, v, k - 1) + u[k] * v[k]

\* one entry of real[start:end] @ unique.T
Dot(u, v) == DotTo(u, v, Len(u))

Min(a, b) == IF a < b THEN a ELSE b

\* sims.argmax(axis=1) for row r (0-based) of real: the first column holding
\* the row's maximum, 0-based
RowArgmax(r) ==
    LET row == [m \in 1 .. Len(unique) |-> Dot(real[r + 1], unique[m])]
        best == CHOOSE m \in 1 .. Len(unique) :
                    /\ \A k \in 1 .. Len(unique) : row[k] <= row[m]
                    /\ \A k \in 1 .. m - 1 : row[k] < row[m]
    IN  best - 1

\* sims[np.arange(sims.shape[0]), idx] for row r
RowMax(r) == Dot(real[r + 1], unique[RowArgmax(r) + 1])

ChunkIdx_Offset(s, e) == [k \in 1 .. e - s |-> RowArgmax(s + k - 1) + s]

\* idx of the chunk real[s:e]
ChunkIdx(s, e) == [k \in 1 .. e - s |-> RowArgmax(s + k - 1)]

\* val of the chunk real[s:e]
ChunkVal(s, e) == [k \in 1 .. e - s |-> RowMax(s + k - 1)]

\* a[s:e] = v
SliceAssign(a, s, e, v) ==
    [k \in 1 .. Len(a) |-> IF s < k /\ k <= e THEN v[k - s] ELSE a[k]]

Width(m) == IF Len(m) = 0 THEN 0 ELSE Len(m[1])

DimsDiffer_Never(re, un) == FALSE

\* D # D2 (lines 45-47); an array without rows carries no width here
DimsDiffer(re, un) == Len(re) > 0 /\ Width(re) # Width(un)

\* chunk_size of the call main makes (the default of line 37)
DefaultChunk == 65536

\* the chunk sizes compute_argmax_clusters is called with, one call after
\* another on the same arrays; the last call is the call of main
ChunkSizes == (1 .. MaxReal) \cup {DefaultChunk}

\* main, lines 73-77: resolve_cache_paths (the unique cache first, then the
\* real cache) and load_embeddings of both
AssignResolve ==
    /\ apc = "main"
    /\ LET u == ResolveOne("unique", a_backend, a_files)
           r == ResolveOne("real", a_backend, a_files)
       IN  IF u = "FileNotFoundError" \/ r = "FileNotFoundError"
           THEN /\ apc' = "FileNotFoundError"
                /\ UNCHANGED <<unique_cache, real_cache, a_loaded>>
           ELSE /\ apc' = "idle"
                /\ unique_cache' = u
                /\ real_cache' = r
                /\ a_loaded' = {u, r}
    /\ UNCHANGED <<real, unique, chunk_size, start, best_idx, best_sim, aruns,
                   counts_only, assign_csv, counts_csv, a_backend, a_files>>

\* a call compute_argmax_clusters(real, unique, cs): lines 45-49
AssignStart ==
    /\ apc = "idle"
    /\ \E cs \in ChunkSizes :
         /\ cs \notin DOMAIN aruns
         /\ \A c \in ChunkSizes : c < cs => c \in DOMAIN aruns
         /\ chunk_size' = cs
    /\ start' = 0
    /\ IF DimsDiffer(real, unique)
       THEN /\ apc' = "AssertionError"
            /\ UNCHANGED <<best_idx, best_sim>>
       ELSE /\ apc' = "loop"
            /\ \E g \in Garbage :
                 /\ best_idx' = [k \in 1 .. Len(real) |-> g]
                 /\ best_sim' = [k \in 1 .. Len(real) |-> g]
    /\ UNCHANGED assignCacheVars
    /\ UNCHANGED <<real, unique, aruns, counts_only, assign_csv, counts_csv>>

\* one iteration of `for start in range(0, N, chunk_size)`
AssignChunk ==
    /\ apc = "loop"
    /\ start < Len(real)
    /\ LET end == Min(start + chunk_size, Len(real))
       IN  /\ best_idx' = SliceAssign(best_idx, start, end, ChunkIdx(start, end))
           /\ best_sim' = SliceAssign(best_sim, start, end, ChunkVal(start, end))
    /\ start' = start + chunk_size
    /\ UNCHANGED assignCacheVars
    /\ UNCHANGED <<real, unique, chunk_size, apc, aruns, counts_only, assign_csv,
                   counts_csv>>

\* return best_idx, best_sim
AssignReturn ==
    /\ apc = "loop"
    /\ start >= Len(real)
    /\ aruns' = [c \in DOMAIN aruns \cup {chunk_size} |->
                    IF c = chunk_size THEN <<best_idx, best_sim>> ELSE aruns[c]]
    /\ apc' = "idle"
    /\ UNCHANGED assignCacheVars
    /\ UNCHANGED <<real, unique, chunk_size, start, best_idx, best_sim, counts_only,
                   assign_csv, counts_csv>>

\* real_paths[r] and unique_paths[m] (0-based): the files of a cache are
\* distinct, and unique_paths sort in the order of their indices
RealPath(r) == <<"real", r>>
UniquePath(m) == <<"unique", m>>

\* the DataFrame of lines 87-93, row by row
AssignmentRows(idx, val) ==
    [r \in 1 .. Len(idx) |->
        [image_path |-> RealPath(r - 1),
         cluster_unique_image |-> UniquePath(idx[r]),
         similarity |-> val[r],
         cluster_index |-> idx[r]]]

GroupSizes_Total(rows) ==
    LET present == {rows[k].cluster_index : k \in 1 .. Len(rows)}
        nth(r) == CHOOSE m \in present : Cardinality({o \in present : o < m}) = r - 1
    IN  [r \in 1 .. Cardinality(present) |->
            [cluster_unique_image |-> UniquePath(nth(r)), count |-> Len(rows)]]

\* df.groupby([...]).size().reset_index(name="count"): one row per value of
\* cluster_unique_image that occurs, in sorted order
GroupSizes(rows) ==
    LET present == {rows[k].cluster_index : k \in 1 .. Len(rows)}
        nth(r) == CHOOSE m \in present : Cardinality({o \in present : o < m}) = r - 1
    IN  [r \in 1 .. Cardinality(present) |->
            [cluster_unique_image |-> UniquePath(nth(r)),
             count |-> Cardinality({k \in 1 .. Len(rows) : rows[k].cluster_index = nth(r)})]]

\* main, lines 80-101: the tables written from the result of the call of main
AssignWrite ==
    /\ apc = "idle"
    /\ DefaultChunk \in DOMAIN aruns
    /\ assign_csv' = AssignmentRows(aruns[DefaultChunk][1], aruns[DefaultChunk][2])
    /\ \E flag \in BOOLEAN :
         /\ counts_only' = flag
         /\ counts_csv' = IF flag THEN GroupSizes(assign_csv') ELSE <<>>
    /\ apc' = "done"
    /\ UNCHANGED assignCacheVars
    /\ UNCHANGED <<real, unique, chunk_size, start, best_idx, best_sim, aruns>>

\* Scenario A: 3 unique centroids and 6 real vectors whose nearest centroids
\* are 0, 0, 1, 1, 2, 2
ScenarioAUnique == <<<<1, 0, 0>>, <<0, 1, 0>>, <<0, 0, 1>>>>
ScenarioAReal ==
    <<<<1, 0, 0>>, <<1, 0, 0>>, <<0, 1, 0>>, <<0, 1, 0>>, <<0, 0, 1>>, <<0, 0, 1>>>>

\* a cache directory that holds both caches of the default backend
AssignCachePresent ==
    /\ a_backend = "clip"
    /\ a_files = {Primary("unique"), Primary("real")}

AssignInputs ==
    /\ AssignCachePresent
    /\ \/ /\ real \in SeqsUpTo(Vec2, 0, MaxReal)
          /\ unique \in SeqsUpTo(Vec2, 1, MaxUnique) \cup SeqsUpTo(Vec3, 1, 1)
       \/ /\ real = ScenarioAReal
          /\ unique = ScenarioAUnique

AssignNoInputs ==
    /\ AssignCachePresent
    /\ real = <<>>
    /\ unique = <<>>

AssignLocals ==
    /\ chunk_size = 0
    /\ start = 0
    /\ best_idx = <<>>
    /\ best_sim = <<>>
    /\ aruns = <<>>
    /\ unique_cache = "unresolved"
    /\ real_cache = "unresolved"
    /\ a_loaded = {}
    /\ counts_only = FALSE
    /\ assign_csv = <<>>
    /\ counts_csv = <<>>

AssignStartState == AssignLocals /\ apc = "main"

\* the script is not run at all
AssignOff == AssignNoInputs /\ AssignLocals /\ apc = "off"

\* any backend and any set of cache files, with caches of two vectors each
AssignCacheInputs ==
    /\ a_backend \in Backends
    /\ a_files \in SUBSET {Primary("unique"), Legacy("unique"), Primary("real"),
                            Legacy("real")}
    /\ real = <<<<1, 0>>, <<0, 1>>>>
    /\ unique = <<<<1, 0>>, <<0, 1>>>>

NextAssign ==
    \/ AssignResolve /\ UNCHANGED <<dedupeVars, splitVars>>
    \/ AssignStart /\ UNCHANGED <<dedupeVars, splitVars>>
    \/ AssignChunk /\ UNCHANGED <<dedupeVars, splitVars>>
    \/ AssignReturn /\ UNCHANGED <<dedupeVars, splitVars>>
    \/ AssignWrite /\ UNCHANGED <<dedupeVars, splitVars>>


(***************************************************************************)
(* split.py                                                                *)
(***************************************************************************)
SplitSet == {"train", "val", "test"}

\* os.path.basename(cluster_key): a key is <<directory, prefix, number>>
Basename(key) == <<key[2], key[3]>>

\* caps of main (lines 286-290)
Cap003 == 500
Cap002 == 400
Cap005 == 400

Caps ==
    (<<"night_bg_", 3>> :> Cap003) @@ (<<"night_bg_", 2>> :> Cap002)
        @@ (<<"night_bg_", 5>> :> Cap005)

\* capped_assignment (lines 102-106)
capped_assignment ==
    (<<"night_bg_", 3>> :> "train") @@ (<<"night_bg_", 2>> :> "val")
        @@ (<<"night_bg_", 5>> :> "test")

\* basename.startswith('night_bg_')
IsNight(basename) == basename[1] = "night_bg_"

\* target_ratios (line 140), in hundredths
TargetRatio100 == [train |-> 70, val |-> 20, test |-> 10]

\* ---- dict[str, list]: the pairs <<key, value>> in insertion order ----
DictGet(d, key) == (CHOOSE e \in SeqSet(d) : e[1] = key)[2]

\* build_cluster_to_images: setdefault(key, []).append(image_path) row by row
BuildClusterToImages(rows) ==
    LET keys == {rows[k].cluster_unique_image : k \in 1 .. Len(rows)}
        first(key) == CHOOSE k \in 1 .. Len(rows) :
                          /\ rows[k].cluster_unique_image = key
                          /\ \A j \in 1 .. k - 1 : rows[j].cluster_unique_image # key
        nth(r) == CHOOSE key \in keys :
                      Cardinality({o \in keys : first(o) < first(key)}) = r - 1
        ofKey(key) == SelectSeq(rows, LAMBDA row : row.cluster_unique_image = key)
        entry(r) == LET key == nth(r)
                        sel == ofKey(key)
                    IN  <<key, [k \in 1 .. Len(sel) |-> sel[k].image_path]>>
    IN  [r \in 1 .. Cardinality(keys) |-> entry(r)]

\* ---- module random: the generator state is a number in 0..15 ----
\* random.seed(seed)
SeedRng(s) == s % 16

\* x after random.shuffle(x) from generator state g: a permutation of x fixed
\* by g and len(x)
ShuffleList(x, g) ==
    IF Len(x) <= 1 THEN x
    ELSE LET len == Len(x)
             rot == [k \in 1 .. len |-> x[((k - 1 + g) % len) + 1]]
         IN  IF (g \div 4) % 2 = 1 THEN Reverse(rot) ELSE rot

\* generator state after random.shuffle(x) from state g
ShuffleRng(x, g) == IF Len(x) <= 1 THEN g ELSE (5 * g + Len(x) + 1) % 16

cap_cluster_NoTruncate(images, cap_size, s) == ShuffleList(images, SeedRng(s))

\* cap_cluster
cap_cluster(images, cap_size, s) ==
    LET shuffled == ShuffleList(images, SeedRng(s))
    IN  SubSeq(shuffled, 1, Min(cap_size, Len(shuffled)))

\* apply_caps
apply_caps(d, caps, s) ==
    [k \in 1 .. Len(d) |->
        IF Basename(d[k][1]) \in DOMAIN caps
        THEN <<d[k][1], cap_cluster(d[k][2], caps[Basename(d[k][1])], s)>>
        ELSE d[k]]


ImagesAfterCap_NoCopy(images, s) == ShuffleList(images, SeedRng(s))

\* the list passed to cap_cluster as `images`, after the call: the shuffle
\* works on images.copy() (line 50)
ImagesAfterCap(images, s) == images

\* the mapping passed to apply_caps, after the call
InputAfterCaps(d, caps, s) ==
    [k \in 1 .. Len(d) |->
        IF Basename(d[k][1]) \in DOMAIN caps
        THEN <<d[k][1], ImagesAfterCap(d[k][2], s)>>
        ELSE d[k]]
\* generator state after apply_caps
RngAfterCaps(d, caps, s, g) ==
    LET hit == {k \in 1 .. Len(d) : Basename(d[k][1]) \in DOMAIN caps}
    IN  IF hit = {} THEN g
        ELSE LET last == CHOOSE k \in hit : \A j \in hit : j <= k
             IN  ShuffleRng(d[last][2], SeedRng(s))


SortLargestFirst_SmallestFirst(cs) ==
    LET rank(j) == Cardinality({k \in 1 .. Len(cs) : cs[k][3] < cs[j][3]})
                     + Cardinality({k \in 1 .. j - 1 : cs[k][3] = cs[j][3]})
    IN  [r \in 1 .. Len(cs) |-> cs[CHOOSE j \in 1 .. Len(cs) : rank(j) = r - 1]]
SortLargestFirst_Unsorted(cs) == cs


SortLargestFirst_TiesReversed(cs) ==
    LET rank(j) == Cardinality({k \in 1 .. Len(cs) : cs[k][3] > cs[j][3]})
                     + Cardinality({k \in j + 1 .. Len(cs) : cs[k][3] = cs[j][3]})
    IN  [r \in 1 .. Len(cs) |-> cs[CHOOSE j \in 1 .. Len(cs) : rank(j) = r - 1]]
\* list.sort(key=lambda x: x[2], reverse=True): stable, largest size first
SortLargestFirst(cs) ==
    LET rank(j) == Cardinality({k \in 1 .. Len(cs) : cs[k][3] > cs[j][3]})
                     + Cardinality({k \in 1 .. j - 1 : cs[k][3] = cs[j][3]})
    IN  [r \in 1 .. Len(cs) |-> cs[CHOOSE j \in 1 .. Len(cs) : rank(j) = r - 1]]

(***************************************************************************)
(* IEEE-754 binary64 arithmetic of the deficit computation (lines 144-150).*)
(* A value x in [0, 1] is held exactly as the integer x * 2^65, written as *)
(* six digits in base 2^13, most significant first; every double met here  *)
(* (a quotient c/t with 0 <= c <= t < 2^12, a target ratio, their          *)
(* difference) is a multiple of 2^-65.                                     *)
(***************************************************************************)
Base == 2 ^ 13

NumDigits == 6

BigZero == [k \in 1 .. NumDigits |-> 0]

\* -1, 0, 1 as a < b, a = b, a > b
BigCmp(a, b) ==
    LET diff == {k \in 1 .. NumDigits : a[k] # b[k]}
    IN  IF diff = {} THEN 0
        ELSE LET f == CHOOSE k \in diff : \A j \in diff : k <= j
             IN  IF a[f] < b[f] THEN -1 ELSE 1

\* carry into digit k when the digits x (each possibly >= Base) are normalised
RECURSIVE CarryInto(_, _)
CarryInto(x, k) ==
    IF k = NumDigits THEN 0 ELSE (x[k + 1] + CarryInto(x, k + 1)) \div Base

Normalise(x) == [k \in 1 .. NumDigits |-> (x[k] + CarryInto(x, k)) % Base]

\* a - b for a >= b
BigSub(a, b) ==
    LET borrow(k) ==
            LET diff == {j \in k + 1 .. NumDigits : a[j] # b[j]}
            IN  IF diff = {} THEN 0
                ELSE LET f == CHOOSE j \in diff : \A h \in diff : j <= h
                     IN  IF a[f] < b[f] THEN 1 ELSE 0
    IN  [k \in 1 .. NumDigits |-> (a[k] - b[k] - borrow(k) + Base) % Base]

\* number of significant bits of a digit
DigitBits(d) == IF d = 0 THEN 0 ELSE CHOOSE h \in 1 .. 13 : 2 ^ (h - 1) <= d /\ d < 2 ^ h

\* number of significant bits of a
BitLen(a) ==
    LET nz == {k \in 1 .. NumDigits : a[k] # 0}
    IN  IF nz = {} THEN 0
        ELSE LET f == CHOOSE k \in nz : \A j \in nz : k <= j
             IN  DigitBits(a[f]) + 13 * (NumDigits - f)

\* a rounded to 53 significant bits, ties to even (at most 12 bits dropped)
Round53(a) ==
    LET drop == BitLen(a) - 53
    IN  IF drop <= 0 THEN a
        ELSE LET g == 2 ^ drop
                 last == a[NumDigits]
                 low == last % g
                 odd == (last \div g) % 2 = 1
                 up == 2 * low > g \/ (2 * low = g /\ odd)
             IN  Normalise([a EXCEPT ![NumDigits] = last - low + (IF up THEN g ELSE 0)])

\* the double nearest c / t, for 0 <= c <= t and 0 < t < 2^12
FDiv(c, t) ==
    IF c = 0 THEN BigZero
    ELSE IF c = t THEN [k \in 1 .. NumDigits |-> IF k = 1 THEN 1 ELSE 0]
    ELSE LET e == CHOOSE k \in 1 .. 12 : c * 2 ^ k >= t /\ c * 2 ^ (k - 1) < t
             r0 == c * 2 ^ e - t
             d1 == (r0 * Base) \div t
             r1 == (r0 * Base) % t
             d2 == (r1 * Base) \div t
             r2 == (r1 * Base) % t
             d3 == (r2 * Base) \div t
             r3 == (r2 * Base) % t
             d4 == (r3 * Base) \div t
             r4 == (r3 * Base) % t
             up == 2 * r4 > t \/ (2 * r4 = t /\ d4 % 2 = 1)
             m == <<0, 1, d1, d2, d3, d4 + (IF up THEN 1 ELSE 0)>>
         IN  Normalise([k \in 1 .. NumDigits |-> m[k] * 2 ^ (13 - e)])

\* the double r - q as <<sign, magnitude>>, for doubles r, q in [0, 1]
\* (here and below an intermediate result is bound as the element of a
\* singleton set, so it is computed once)
FSub(r, q) ==
    IF BigCmp(r, q) >= 0
    THEN CHOOSE x \in {<<1, Round53(d)>> : d \in {BigSub(r, q)}} : TRUE
    ELSE CHOOSE x \in {<<-1, Round53(d)>> : d \in {BigSub(q, r)}} : TRUE

\* x > y for signed doubles
FGreater(x, y) ==
    LET xz == x[2] = BigZero
        yz == y[2] = BigZero
    IN  IF xz /\ yz THEN FALSE
        ELSE IF x[1] # y[1] /\ ~xz /\ ~yz THEN x[1] > y[1]
        ELSE IF xz THEN y[1] < 0
        ELSE IF yz THEN x[1] > 0
        ELSE IF x[1] > 0 THEN BigCmp(x[2], y[2]) > 0
        ELSE BigCmp(x[2], y[2]) < 0

\* 100 * current_total * deficits[split] in exact arithmetic (100 * target
\* when current_total is 0)
Deficit100(cnt, split) ==
    LET t == cnt.train + cnt.val + cnt.test
    IN  IF t > 0 THEN TargetRatio100[split] * t - 100 * cnt[split]
        ELSE TargetRatio100[split]

\* deficits[split] as the double the script computes (lines 147-148)
Deficit(cnt, split) ==
    LET t == cnt.train + cnt.val + cnt.test
    IN  CHOOSE x \in {FSub(r, q) :
                        r \in {FDiv(TargetRatio100[split], 100)},
                        q \in {IF t > 0 THEN FDiv(cnt[split], t) ELSE BigZero}} : TRUE

\* deficits[a] > deficits[b]. Two deficits that differ as real numbers differ
\* by at least 1 / (100 * current_total) > 2^-19, far more than the rounding
\* of the doubles (below 2^-50), so the doubles compare as the real numbers do;
\* only when the real values tie do the rounded doubles decide.
DeficitGreater(cnt, a, b) ==
    IF Deficit100(cnt, a) # Deficit100(cnt, b)
    THEN Deficit100(cnt, a) > Deficit100(cnt, b)
    ELSE \E x \in {Deficit(cnt, a)} : \E y \in {Deficit(cnt, b)} : FGreater(x, y)

\* max(d, key=d.get) over train, val, test, given d[val] > d[train],
\* d[test] > d[train] and d[test] > d[val]: the first split no later split
\* exceeds
MaxFirst(vt, tt, tv) ==
    LET b2 == IF vt THEN "val" ELSE "train"
    IN  IF (IF b2 = "val" THEN tv ELSE tt) THEN "test" ELSE b2


NightBest_AlwaysTrain(cnt) == "train"
NightBest_LeastFilled(cnt) ==
    MaxFirst(cnt.val < cnt.train, cnt.test < cnt.train, cnt.test < cnt.val)

\* best_split of the night loop (lines 144-150)
NightBest(cnt) ==
    MaxFirst(DeficitGreater(cnt, "val", "train"), DeficitGreater(cnt, "test", "train"),
             DeficitGreater(cnt, "test", "val"))


DayBest_FewestDayImages(nc, dc) ==
    MaxFirst(dc.val < dc.train, dc.test < dc.train, dc.test < dc.val)
\* best_split of the day loop (lines 160-164)
DayBest(nc, dc) ==
    MaxFirst(nc.val - dc.val > nc.train - dc.train,
             nc.test - dc.test > nc.train - dc.train,
             nc.test - dc.test > nc.val - dc.val)

SplitImages_FirstImageOnly(alloc, d, split) ==
    [k \in 1 .. Len(alloc[split]) |-> DictGet(d, alloc[split][k])[1]]

\* the images of the clusters of allocation[split], concatenated (lines 192-194)
SplitImages(alloc, d, split) ==
    Flatten([k \in 1 .. Len(alloc[split]) |-> DictGet(d, alloc[split][k])])


ZeroCounts == [train |-> 0, val |-> 0, test |-> 0]

EmptyLists == [train |-> <<>>, val |-> <<>>, test |-> <<>>]

\* the state of a run of main before its first statement
SplitStartState ==
    /\ spc = "start"
    /\ cluster_to_images = <<>>
    /\ capped = <<>>
    /\ allocation = EmptyLists
    /\ counts = ZeroCounts
    /\ day_counts = ZeroCounts
    /\ night_counts = ZeroCounts
    /\ day_clusters = <<>>
    /\ night_clusters = <<>>
    /\ pos = 1
    /\ trace = <<>>
    /\ out = EmptyLists

LoadOutcome_AssignmentsOnly(m) ==
    IF m \in {"none", "counts"} THEN "loaded" ELSE "ValueError"

\* the two column checks of load_data (lines 30-33)
LoadOutcome(m) == IF m = "none" THEN "loaded" ELSE "ValueError"

\* load_data
LoadData ==
    /\ spc = "start"
    /\ spc' = LoadOutcome(missing)
    /\ UNCHANGED <<assign_rows, missing, seed, rng, cluster_to_images, capped,
                   allocation, counts, day_counts, night_counts, day_clusters,
                   night_clusters, pos, trace, out, run, prev_out>>

\* main, line 278: build_cluster_to_images
BuildMapping ==
    /\ spc = "loaded"
    /\ cluster_to_images' = BuildClusterToImages(assign_rows)
    /\ spc' = "built"
    /\ UNCHANGED <<assign_rows, missing, seed, rng, capped, allocation, counts,
                   day_counts, night_counts, day_clusters, night_clusters, pos,
                   trace, out, run, prev_out>>

\* main, lines 284-297: apply_caps and the retention report, which divides by
\* the number of rows
ApplyCaps ==
    /\ spc = "built"
    /\ capped' = apply_caps(cluster_to_images, Caps, seed)
    /\ cluster_to_images' = InputAfterCaps(cluster_to_images, Caps, seed)
    /\ rng' = RngAfterCaps(cluster_to_images, Caps, seed, rng)
    /\ spc' = IF Len(assign_rows) = 0 THEN "ZeroDivisionError" ELSE "capped"
    /\ UNCHANGED <<assign_rows, missing, seed, allocation,
                   counts, day_counts, night_counts, day_clusters, night_clusters,
                   pos, trace, out, run, prev_out>>

\* allocate_exact_splits, lines 88-110
AllocBegin ==
    /\ spc = "capped"
    /\ allocation' = EmptyLists
    /\ counts' = ZeroCounts
    /\ day_counts' = ZeroCounts
    /\ night_counts' = ZeroCounts
    /\ day_clusters' = <<>>
    /\ night_clusters' = <<>>
    /\ pos' = 1
    /\ spc' = "separate"
    /\ UNCHANGED <<assign_rows, missing, seed, rng, cluster_to_images, capped,
                   trace, out, run, prev_out>>

IsPinned_OnlyTrain(basename) == basename = <<"night_bg_", 3>>

\* basename in capped_assignment (line 117)
IsPinned(basename) == basename \in DOMAIN capped_assignment

QueuedAsNight_NoElif(basename) == IsNight(basename)

\* the branch `elif is_night` (line 124)
QueuedAsNight(basename) == ~IsPinned(basename) /\ IsNight(basename)


QueuedAsDay_ConformingOnly(basename) == ~IsPinned(basename) /\ basename[1] = "day_bg_"
\* the branch `else` (line 126)
QueuedAsDay(basename) == ~IsPinned(basename) /\ ~IsNight(basename)


Grow_Overwrite(cnt, split, size) == [cnt EXCEPT ![split] = size]

\* a running total after `total[split] += size`
Grow(cnt, split, size) == [cnt EXCEPT ![split] = @ + size]
Event(phase, key, size, split) ==
    [phase |-> phase, key |-> key, size |-> size, split |-> split]

\* one iteration of `for cluster_key in cluster_to_images.keys()` (lines 112-127)
Separate ==
    /\ spc = "separate"
    /\ pos <= Len(capped)
    /\ LET cluster_key == capped[pos][1]
           basename == Basename(cluster_key)
           size == Len(capped[pos][2])
           split == capped_assignment[basename]
       IN  /\ IF IsPinned(basename)
              THEN /\ allocation' = [allocation EXCEPT ![split] = Append(@, cluster_key)]
                   /\ counts' = Grow(counts, split, size)
                   /\ night_counts' = Grow(night_counts, split, size)
                   /\ trace' = Append(trace, Event("pin", cluster_key, size, split))
              ELSE UNCHANGED <<allocation, counts, night_counts, trace>>
           /\ night_clusters' = IF QueuedAsNight(basename)
                                THEN Append(night_clusters, <<cluster_key, basename, size>>)
                                ELSE night_clusters
           /\ day_clusters' = IF QueuedAsDay(basename)
                              THEN Append(day_clusters, <<cluster_key, basename, size>>)
                              ELSE day_clusters
    /\ pos' = pos + 1
    /\ UNCHANGED <<assign_rows, missing, seed, rng, spc, cluster_to_images, capped,
                   day_counts, out, run, prev_out>>

\* lines 129-131: both lists sorted largest first
SortClusters ==
    /\ spc = "separate"
    /\ pos > Len(capped)
    /\ night_clusters' = SortLargestFirst(night_clusters)
    /\ day_clusters' = SortLargestFirst(day_clusters)
    /\ pos' = 1
    /\ spc' = "night"
    /\ UNCHANGED <<assign_rows, missing, seed, rng, cluster_to_images, capped,
                   allocation, counts, day_counts, night_counts, trace, out, run,
                   prev_out>>

\* one iteration of `for cluster_key, basename, size in night_clusters`
NightStep ==
    /\ spc = "night"
    /\ pos <= Len(night_clusters)
    /\ LET cluster_key == night_clusters[pos][1]
           size == night_clusters[pos][3]
           best_split == NightBest(counts)
       IN  /\ allocation' = [allocation EXCEPT ![best_split] = Append(@, cluster_key)]
           /\ counts' = Grow(counts, best_split, size)
           /\ night_counts' = Grow(night_counts, best_split, size)
           /\ trace' = Append(trace, Event("night", cluster_key, size, best_split))
    /\ pos' = pos + 1
    /\ UNCHANGED <<assign_rows, missing, seed, rng, spc, cluster_to_images, capped,
                   day_counts, day_clusters, night_clusters, out, run, prev_out>>

\* the night loop ends
NightDone ==
    /\ spc = "night"
    /\ pos > Len(night_clusters)
    /\ pos' = 1
    /\ spc' = "day"
    /\ UNCHANGED <<assign_rows, missing, seed, rng, cluster_to_images, capped,
                   allocation, counts, day_counts, night_counts, day_clusters,
                   night_clusters, trace, out, run, prev_out>>

\* one iteration of `for cluster_key, basename, size in day_clusters`
DayStep ==
    /\ spc = "day"
    /\ pos <= Len(day_clusters)
    /\ LET cluster_key == day_clusters[pos][1]
           size == day_clusters[pos][3]
           best_split == DayBest(night_counts, day_counts)
       IN  /\ allocation' = [allocation EXCEPT ![best_split] = Append(@, cluster_key)]
           /\ counts' = Grow(counts, best_split, size)
           /\ day_counts' = Grow(day_counts, best_split, size)
           /\ trace' = Append(trace, Event("day", cluster_key, size, best_split))
    /\ pos' = pos + 1
    /\ UNCHANGED <<assign_rows, missing, seed, rng, spc, cluster_to_images, capped,
                   night_counts, day_clusters, night_clusters, out, run, prev_out>>

\* return allocation, split_stats
AllocReturn ==
    /\ spc = "day"
    /\ pos > Len(day_clusters)
    /\ spc' = "allocated"
    /\ UNCHANGED <<assign_rows, missing, seed, rng, cluster_to_images, capped,
                   allocation, counts, day_counts, night_counts, day_clusters,
                   night_clusters, pos, trace, out, run, prev_out>>

WriteRng_Unseeded(s, g) == g

\* generator state write_splits shuffles from (line 188)
WriteRng(s, g) == SeedRng(s)

\* write_splits
WriteSplits ==
    /\ spc = "allocated"
    /\ LET g0 == WriteRng(seed, rng)
           tr == SplitImages(allocation, capped, "train")
           va == SplitImages(allocation, capped, "val")
           te == SplitImages(allocation, capped, "test")
           g1 == ShuffleRng(tr, g0)
           g2 == ShuffleRng(va, g1)
       IN  /\ out' = [train |-> ShuffleList(tr, g0),
                      val |-> ShuffleList(va, g1),
                      test |-> ShuffleList(te, g2)]
           /\ rng' = ShuffleRng(te, g2)
    /\ spc' = "done"
    /\ UNCHANGED <<assign_rows, missing, seed, cluster_to_images, capped, allocation,
                   counts, day_counts, night_counts, day_clusters, night_clusters,
                   pos, trace, run, prev_out>>


\* ---- print_statistics: the DATA LEAKAGE ANALYSIS lines (250-253) ----
\* "Clusters split across multiple sets: 0 (ZERO LEAKAGE)"
ReportedSplitAcross == 0
\* "Clusters fully intact: 27/30 (90%)"
ReportedIntact == 27
\* "Clusters partially sampled: 3/30 (10%)"
ReportedCapped == 3
\* generator states a fresh interpreter may start in
Entropy == {0, 9}

\* the script is started again on the same files with the same --seed
Rerun ==
    /\ spc = "done"
    /\ run = 1
    /\ run' = 2
    /\ prev_out' = out
    /\ rng' \in Entropy
    /\ spc' = "start"
    /\ cluster_to_images' = <<>>
    /\ capped' = <<>>
    /\ allocation' = EmptyLists
    /\ counts' = ZeroCounts
    /\ day_counts' = ZeroCounts
    /\ night_counts' = ZeroCounts
    /\ day_clusters' = <<>>
    /\ night_clusters' = <<>>
    /\ pos' = 1
    /\ trace' = <<>>
    /\ out' = EmptyLists
    /\ UNCHANGED <<assign_rows, missing, seed>>


\* ---- allocate_exact_splits as a function of the mapping it is given ----
\* (cluster_key, basename, size) of the entries of a mapping
Triples(d) == [k \in 1 .. Len(d) |-> <<d[k][1], Basename(d[k][1]), Len(d[k][2])>>]

\* the four dicts after the clusters cs were placed one after the other in the
\* given phase ("pin": lines 117-123, "night": 142-153, "day": 158-167)
RECURSIVE PlaceAll(_, _, _)
PlaceAll(st, cs, phase) ==
    IF cs = <<>> THEN st
    ELSE LET c == Head(cs)
             best == CASE phase = "pin" -> capped_assignment[c[2]]
                       [] phase = "night" -> NightBest(st.counts)
                       [] phase = "day" -> DayBest(st.night_counts, st.day_counts)
             placed == [allocation |-> [st.allocation EXCEPT ![best] = Append(@, c[1])],
                        counts |-> Grow(st.counts, best, c[3]),
                        night_counts |-> IF phase = "day" THEN st.night_counts
                                         ELSE Grow(st.night_counts, best, c[3]),
                        day_counts |-> IF phase = "day"
                                       THEN Grow(st.day_counts, best, c[3])
                                       ELSE st.day_counts]
         IN  PlaceAll(placed, Tail(cs), phase)

\* allocation and running totals at the return of allocate_exact_splits(d)
AllocateExactSplits(d) ==
    LET all == Triples(d)
        pinned == SelectSeq(all, LAMBDA c : IsPinned(c[2]))
        night == SortLargestFirst(SelectSeq(all, LAMBDA c : QueuedAsNight(c[2])))
        day == SortLargestFirst(SelectSeq(all, LAMBDA c : QueuedAsDay(c[2])))
        s0 == [allocation |-> EmptyLists, counts |-> ZeroCounts,
               night_counts |-> ZeroCounts, day_counts |-> ZeroCounts]
        s1 == PlaceAll(s0, pinned, "pin")
        s2 == PlaceAll(s1, night, "night")
    IN  PlaceAll(s2, day, "day")
\* ---- inventories ----
\* the key of the cluster at position j of an inventory of <<kind, size>>
KeyOf(kind, j) ==
    CASE kind = "pin3" -> <<j, "night_bg_", 3>>
      [] kind = "pin2" -> <<j, "night_bg_", 2>>
      [] kind = "pin5" -> <<j, "night_bg_", 5>>
      [] kind = "night" -> <<0, "night_bg_", 10 + j>>
      [] kind = "day" -> <<0, "day_bg_", 10 + j>>
      [] kind = "fake" -> <<0, "fake_night_bg_", 10 + j>>

\* the assignments table of an inventory: one row per image, cluster by cluster
RowsOfInventory(inv) ==
    Flatten([j \in 1 .. Len(inv) |->
        [m \in 1 .. inv[j][2] |->
            [image_path |-> <<j, m>>,
             cluster_unique_image |-> KeyOf(inv[j][1], j)]]])

\* kinds and sizes of the clusters of the generated inventories
ClusterTypes ==
    << <<"pin3", 1>>, <<"pin3", 2>>, <<"pin2", 1>>, <<"pin2", 2>>,
       <<"pin5", 1>>, <<"pin5", 2>>, <<"night", 1>>, <<"night", 2>>,
       <<"day", 1>>, <<"day", 2>>, <<"fake", 1>> >>

\* inventories of at most MaxClusters clusters, each multiset of types once
GeneratedInventories ==
    {[j \in 1 .. Len(ix) |-> ClusterTypes[ix[j]]] :
        ix \in {f \in SeqsUpTo(1 .. Len(ClusterTypes), 0, MaxClusters) :
                    \A j \in 1 .. Len(f) - 1 : f[j] <= f[j + 1]}}

\* Scenario C: night_bg_003 (500 images), night clusters of 300, 200, 100
\* images, day clusters of 150 and 100 images
ScenarioCInventory ==
    << <<"pin3", 500>>, <<"night", 300>>, <<"night", 200>>, <<"night", 100>>,
       <<"day", 150>>, <<"day", 100>> >>

\* the three capped clusters above, at and below their caps
OverCapInventory ==
    << <<"pin3", 503>>, <<"pin2", 400>>, <<"pin5", 401>>, <<"night", 2>>,
       <<"day", 3>> >>

\* night images of train in the module docstring (line 6)
HeaderNightTrain == 965

\* the night images left for the greedy phase once night_bg_003 is capped
RemainingNight == HeaderNightTrain - Cap003

RECURSIVE SumSeq(_)
SumSeq(xs) == IF xs = <<>> THEN 0 ELSE Head(xs) + SumSeq(Tail(xs))

\* the ways of cutting NightUnits units into clusters, largest cluster first
UnitPartitions ==
    {p \in SeqsUpTo(1 .. NightUnits, 1, NightUnits) :
        /\ SumSeq(p) = NightUnits
        /\ \A j \in 1 .. Len(p) - 1 : p[j] >= p[j + 1]}

\* the inventory of the module docstring: the three capped clusters above
\* their caps and RemainingNight night images in the clusters of a partition
HeaderInventory(p) ==
    LET unit == RemainingNight \div NightUnits
        rest == RemainingNight - unit * NightUnits
    IN  << <<"pin3", Cap003 + 3>>, <<"pin2", Cap002>>, <<"pin5", Cap005 + 1>> >> \o
        [j \in 1 .. Len(p) |->
            <<"night", p[j] * unit + (IF j = 1 THEN rest ELSE 0)>>]

HeaderInventories == {HeaderInventory(p) : p \in UnitPartitions}

Inventories ==
    GeneratedInventories \cup {ScenarioCInventory, OverCapInventory} \cup HeaderInventories

Seeds == {42, 7}

SplitInputs ==
    /\ \E inv \in Inventories : \E order \in {"listed", "reversed"} :
         assign_rows = RowsOfInventory(IF order = "listed" THEN inv ELSE Reverse(inv))
    /\ missing \in {"none", "counts", "assignments", "both"}
    /\ seed \in Seeds
    /\ rng \in Entropy
    /\ run = 1
    /\ prev_out = EmptyLists

\* assignment tables that need not come from assign_clusters.py: any rows
\* over two image paths and three clusters, so a path may occur in several rows
TableRows ==
    [image_path : {<<0, 1>>, <<0, 2>>},
     cluster_unique_image : {KeyOf("night", 1), KeyOf("day", 2), KeyOf("pin3", 3)}]

ArbitraryTables == SeqsUpTo(TableRows, 0, MaxRows)

SplitTableInputs ==
    /\ assign_rows \in ArbitraryTables
    /\ missing \in {"none", "counts", "assignments"}
    /\ seed \in Seeds
    /\ rng \in Entropy
    /\ run = 1
    /\ prev_out = EmptyLists

SplitNoInputs ==
    /\ assign_rows = <<>>
    /\ missing = "none"
    /\ seed = 42
    /\ rng = 0
    /\ run = 1
    /\ prev_out = EmptyLists

NextSplit ==
    \/ LoadData /\ UNCHANGED <<dedupeVars, assignVars>>
    \/ BuildMapping /\ UNCHANGED <<dedupeVars, assignVars>>
    \/ ApplyCaps /\ UNCHANGED <<dedupeVars, assignVars>>
    \/ AllocBegin /\ UNCHANGED <<dedupeVars, assignVars>>
    \/ Separate /\ UNCHANGED <<dedupeVars, assignVars>>
    \/ SortClusters /\ UNCHANGED <<dedupeVars, assignVars>>
    \/ NightStep /\ UNCHANGED <<dedupeVars, assignVars>>
    \/ NightDone /\ UNCHANGED <<dedupeVars, assignVars>>
    \/ DayStep /\ UNCHANGED <<dedupeVars, assignVars>>
    \/ AllocReturn /\ UNCHANGED <<dedupeVars, assignVars>>
    \/ WriteSplits /\ UNCHANGED <<dedupeVars, assignVars>>
    \/ Rerun /\ UNCHANGED <<dedupeVars, assignVars>>


\* the generated inventories, in both row orders, with the default --seed
SplitLiveInputs ==
    /\ \E inv \in GeneratedInventories : \E order \in {"listed", "reversed"} :
         assign_rows = RowsOfInventory(IF order = "listed" THEN inv ELSE Reverse(inv))
    /\ missing = "none"
    /\ seed = 42
    /\ rng = 0
    /\ run = 1
    /\ prev_out = EmptyLists

InitSplitLive ==
    /\ SplitLiveInputs /\ SplitStartState
    /\ DedupeNoInputs /\ DedupeStartState
    /\ AssignNoInputs /\ AssignStartState
InitDedupe ==
    /\ DedupeInputs /\ DedupeStartState
    /\ AssignNoInputs /\ AssignStartState
    /\ SplitNoInputs /\ SplitStartState

InitAssign ==
    /\ AssignInputs /\ AssignStartState
    /\ DedupeNoInputs /\ DedupeStartState
    /\ SplitNoInputs /\ SplitStartState

InitSplit ==
    /\ SplitInputs /\ SplitStartState
    /\ DedupeNoInputs /\ DedupeStartState
    /\ AssignNoInputs /\ AssignStartState

SpecSplit == InitSplit /\ [][NextSplit]_vars

\* split.py is one sequential process: while a statement remains, the
\* interpreter executes it
SpecSplitLive == InitSplitLive /\ [][NextSplit]_vars /\ WF_vars(NextSplit)

\* either script started in a cache directory holding any of the cache files
InitCache ==
    /\ \/ DedupeCacheInputs /\ DedupeStartState /\ AssignOff
       \/ AssignCacheInputs /\ AssignStartState /\ DedupeOff
    /\ SplitNoInputs /\ SplitStartState

NextCache == NextDedupe \/ NextAssign

SpecCache == InitCache /\ [][NextCache]_vars

InitSplitTables ==
    /\ SplitTableInputs /\ SplitStartState
    /\ DedupeNoInputs /\ DedupeStartState
    /\ AssignNoInputs /\ AssignStartState

\* split.py run on arbitrary assignment tables
SpecSplitTables == InitSplitTables /\ [][NextSplit]_vars

SpecDedupe == InitDedupe /\ [][NextDedupe]_vars

SpecAssign == InitAssign /\ [][NextAssign]_vars

(***************************************************************************)
(* Properties of dedupe_by_threshold.py                                    *)
(***************************************************************************)
\* C1: when dedupe_range_search has returned, every index 0..n-1 occurs in
\* exactly one group and exactly once in it: the groups partition the indices.
C1_PartitionLaw ==
    (dpc = "write") =>
        /\ Len(Flatten(groups)) = n
        /\ SeqSet(Flatten(groups)) = 0 .. n - 1

\* C1 witness: a returned grouping of MaxN rows with a group of several
\* members and a skipped index.
C1_Witness ==
    /\ dpc = "write"
    /\ n = MaxN
    /\ Len(groups) = 2
    /\ \E g \in 1 .. Len(groups) : Len(groups[g]) >= 3

\* Number of groups of the completed invocation at threshold T.
NumGroups(T) == Len(runs[T])

NearAt(a, b, T) == a # b /\ InRadius(SimOf(a, b), T) /\ SimOf(a, b) >= T

TransitiveAt(T) ==
    \A a \in 0 .. n - 1 : \A b \in 0 .. n - 1 : \A c \in 0 .. n - 1 :
        (NearAt(a, b, T) /\ NearAt(b, c, T) /\ a # c) => NearAt(a, c, T)

RowsOf(gid) == SelectSeq(records, LAMBDA r : r.group_id = gid)

\* C7: every emitted group starts with its representative at similarity
\* exactly 1.0 (100), and in the membership table is_representative is 1 on
\* the first row of a group and 0 on every other row.
C7_RepresentativeFirst ==
    /\ Len(groups) = Len(group_sims)
    /\ \A g \in 1 .. Len(groups) :
         /\ Len(group_sims[g]) = Len(groups[g])
         /\ group_sims[g][1] = 100
         /\ \A k \in 2 .. Len(groups[g]) : groups[g][k] # groups[g][1]
    /\ (dpc = "idle" /\ threshold \in DOMAIN runs) =>
         \A g \in 1 .. Len(groups) :
            LET rows == RowsOf(g)
            IN  /\ Len(rows) = Len(groups[g])
                /\ rows[1].member_path = rows[1].representative
                /\ rows[1].member_path = PathOf(groups[g][1])
                /\ rows[1].similarity_to_rep = 100
                /\ rows[1].is_representative = 1
                /\ \A k \in 2 .. Len(rows) :
                     /\ rows[k].is_representative = 0
                     /\ rows[k].representative = rows[1].member_path
                     /\ rows[k].member_path # rows[1].member_path

\* C7 witness: a written membership table with a group of three rows.
C7_Witness ==
    /\ dpc = "idle"
    /\ threshold \in DOMAIN runs
    /\ \E g \in 1 .. Len(groups) : Len(RowsOf(g)) >= 3
    /\ Len(groups) >= 2

\* Scenario B: 4 rows, sim(0,1) = 0.95, sim(2,3) = 0.5, every other pair
\* below 0.75, threshold 0.75, outputs written.
ScenarioB ==
    /\ n = 4
    /\ SimOf(0, 1) = 95
    /\ SimOf(2, 3) = 50
    /\ \A p \in Pairs(n) : p # <<0, 1>> => sim[p] < 75
    /\ threshold = 75
    /\ dpc = "idle"
    /\ threshold \in DOMAIN runs

\* C9 as stated: Scenario B ends with groups {0,1}, {2}, {3}, 3 paths kept
\* and 2 paths removed.
C9_ScenarioB_TwoRemoved ==
    ScenarioB =>
        /\ groups = << <<0, 1>>, <<2>>, <<3>> >>
        /\ Len(keep) = 3
        /\ Len(remove) = 2

\* C9 amended: Scenario B ends with groups {0,1}, {2}, {3}, 3 paths in the
\* keep list and 1 path (row 1) in the remove list.
C9_ScenarioB ==
    ScenarioB =>
        /\ groups = << <<0, 1>>, <<2>>, <<3>> >>
        /\ keep = <<PathOf(0), PathOf(2), PathOf(3)>>
        /\ remove = <<PathOf(1)>>

\* C9 witness: Scenario B has run with a pair of rows at similarity 0.70.
C9_Witness ==
    /\ ScenarioB
    /\ SimOf(1, 2) = 70
    /\ Len(keep) = 3

ReportedCount(m) ==
    IF \E k \in 1 .. Len(counts_csv) : counts_csv[k].cluster_unique_image = UniquePath(m)
    THEN (CHOOSE row \in SeqSet(counts_csv) : row.cluster_unique_image = UniquePath(m)).count
    ELSE 0

\* C11: the cluster_index written for a real image is the index of a unique
\* vector of maximal similarity to it, the similarity written is that maximum,
\* and the count of each cluster is the number of real images with that
\* cluster_index; in Scenario A the indices are 0,0,1,1,2,2 and the counts 2,2,2.
C11_NearestAndCounts ==
    apc = "done" =>
        /\ Len(assign_csv) = Len(real)
        /\ \A r \in 1 .. Len(real) :
             /\ assign_csv[r].cluster_index \in 0 .. Len(unique) - 1
             /\ assign_csv[r].similarity = Dot(real[r], unique[assign_csv[r].cluster_index + 1])
             /\ \A m \in 1 .. Len(unique) : Dot(real[r], unique[m]) <= assign_csv[r].similarity
        /\ counts_only =>
             /\ \A m \in 0 .. Len(unique) - 1 :
                  ReportedCount(m) = Cardinality({r \in 1 .. Len(real) :
                                                     assign_csv[r].cluster_index = m})
             /\ \A a \in 1 .. Len(counts_csv) : \A b \in 1 .. Len(counts_csv) :
                  counts_csv[a].cluster_unique_image = counts_csv[b].cluster_unique_image
                      => a = b
        /\ real = ScenarioAReal /\ unique = ScenarioAUnique =>
             /\ [r \in 1 .. Len(real) |-> assign_csv[r].cluster_index] = <<0, 0, 1, 1, 2, 2>>
             /\ counts_only =>
                  [k \in 1 .. Len(counts_csv) |-> counts_csv[k].count] = <<2, 2, 2>>

\* both tables are written for Scenario A
C11_Witness ==
    /\ apc = "done"
    /\ counts_only
    /\ real = ScenarioAReal
    /\ unique = ScenarioAUnique
    /\ Len(counts_csv) = Len(unique)


(***************************************************************************)
(* split.py                                                                *)
(***************************************************************************)
\* the partitions whose output list holds every image of the list imgs
HoldingAll(imgs) == {sp \in SplitSet : SeqSet(imgs) \subseteq SeqSet(out[sp])}

\* the partitions whose output list holds some image of the list imgs
HoldingSome(imgs) == {sp \in SplitSet : SeqSet(imgs) \cap SeqSet(out[sp]) # {}}

\* C2: once apply_caps, allocate_exact_splits and write_splits have run, all
\* member images of every cluster whose basename is not in the cap table are
\* in the output list of exactly one partition and in no other list.
C2_UncappedClusterInOnePartition ==
    spc = "done" =>
        \A k \in 1 .. Len(cluster_to_images) :
            Basename(cluster_to_images[k][1]) \notin DOMAIN Caps =>
                /\ Cardinality(HoldingAll(cluster_to_images[k][2])) = 1
                /\ HoldingSome(cluster_to_images[k][2]) = HoldingAll(cluster_to_images[k][2])

\* a finished run with two uncapped clusters of more than one image in
\* different partitions
C2_Witness ==
    /\ spc = "done"
    /\ \E k1 \in 1 .. Len(cluster_to_images) : \E k2 \in 1 .. Len(cluster_to_images) :
         /\ Basename(cluster_to_images[k1][1]) \notin DOMAIN Caps
         /\ Basename(cluster_to_images[k2][1]) \notin DOMAIN Caps
         /\ Len(cluster_to_images[k1][2]) > 1
         /\ Len(cluster_to_images[k2][2]) > 1
         /\ HoldingAll(cluster_to_images[k1][2]) # HoldingAll(cluster_to_images[k2][2])

NoDuplicates(xs) == \A a \in 1 .. Len(xs) : \A b \in 1 .. Len(xs) : xs[a] = xs[b] => a = b

\* C3: in every state of allocate_exact_splits the cluster lists of train,
\* val and test are pairwise disjoint and no cluster key occurs twice within
\* one list.
C3_OwnershipDisjoint ==
    /\ \A sp \in SplitSet : NoDuplicates(allocation[sp])
    /\ \A s1 \in SplitSet : \A s2 \in SplitSet :
         s1 # s2 => SeqSet(allocation[s1]) \cap SeqSet(allocation[s2]) = {}

PhasesOf(tr) == {tr[k].phase : k \in 1 .. Len(tr)}

\* the allocator has pinned a cluster, assigned a night cluster and assigned a
\* day cluster, and two partitions own clusters
C3_Witness ==
    /\ spc = "day"
    /\ PhasesOf(trace) = {"pin", "night", "day"}
    /\ Cardinality({sp \in SplitSet : allocation[sp] # <<>>}) >= 2

\* C4: a second run on the same inventory in the same order with the same
\* seed writes the same three lists, path for path, as the first run.
C4_Deterministic == (run = 2 /\ spc = "done") => out = prev_out

\* a second run has finished whose train list was reordered by the shuffle and
\* whose inventory has a cluster above its cap
C4_Witness ==
    /\ run = 2
    /\ spc = "done"
    /\ out.train # SplitImages(allocation, capped, "train")
    /\ \E k \in 1 .. Len(capped) : Len(capped[k][2]) < Len(cluster_to_images[k][2])

\* the expected day/night naming convention
Conforms(basename) == basename[1] \in {"day_bg_", "night_bg_"}

Queued(cs) == {cs[k][1] : k \in 1 .. Len(cs)}

\* C8: a cluster whose name does not match the day/night naming convention is
\* never treated as day or as night and never added to a partition.
C8_UnresolvedTagNotCounted ==
    \A k \in 1 .. Len(capped) :
        ~Conforms(Basename(capped[k][1])) =>
            /\ capped[k][1] \notin Queued(day_clusters) \cup Queued(night_clusters)
            /\ \A sp \in SplitSet : capped[k][1] \notin SeqSet(allocation[sp])

RECURSIVE ImagesOf(_)
\* number of images of an inventory
ImagesOf(inv) == IF inv = <<>> THEN 0 ELSE Head(inv)[2] + ImagesOf(Tail(inv))

IsScenarioC ==
    /\ Len(assign_rows) = ImagesOf(ScenarioCInventory)
    /\ assign_rows \in {RowsOfInventory(ScenarioCInventory),
                        RowsOfInventory(Reverse(ScenarioCInventory))}

\* the assignments made so far as <<phase, size, split>>
TraceShape == [k \in 1 .. Len(trace) |-> <<trace[k].phase, trace[k].size, trace[k].split>>]

ScenarioCTrace ==
    << <<"pin", 500, "train">>, <<"night", 300, "val">>, <<"night", 200, "test">>,
       <<"night", 100, "train">>, <<"day", 150, "train">>, <<"day", 100, "train">> >>

IsPrefix(xs, ys) == Len(xs) <= Len(ys) /\ xs = SubSeq(ys, 1, Len(xs))

\* C10: in Scenario C the allocator pins night_bg_003 to train, sends night
\* 300 to val, night 200 to test, night 100 to train, then day 150 and day 100
\* to train, and ends with train 850 (250 day, 600 night), val 300 (all
\* night) and test 200 (all night).
C10_ScenarioC ==
    IsScenarioC =>
        /\ IsPrefix(TraceShape, ScenarioCTrace)
        /\ spc \in {"allocated", "done"} =>
             /\ TraceShape = ScenarioCTrace
             /\ counts = [train |-> 850, val |-> 300, test |-> 200]
             /\ day_counts = [train |-> 250, val |-> 0, test |-> 0]
             /\ night_counts = [train |-> 600, val |-> 300, test |-> 200]

\* the allocator has returned on the Scenario C inventory listed smallest
\* cluster first
C10_Witness ==
    /\ Len(assign_rows) = ImagesOf(ScenarioCInventory)
    /\ assign_rows = RowsOfInventory(Reverse(ScenarioCInventory))
    /\ spc = "allocated"
    /\ Len(trace) = Len(ScenarioCTrace)

\* C12: no path occurs twice within the train list, the val list or the test
\* list that write_splits writes, also when the assignments table has the same
\* image_path in more than one row.
C12_OutputDeduplicated ==
    spc = "done" => \A sp \in SplitSet : NoDuplicates(out[sp])

\* number of occurrences of x in the list xs
Count(x, xs) == Cardinality({k \in 1 .. Len(xs) : xs[k] = x})

\* no element occurs more often in xs than in ys
NoMoreOftenThan(xs, ys) ==
    /\ SeqSet(xs) \subseteq SeqSet(ys)
    /\ IF Cardinality(SeqSet(ys)) = Len(ys)
       THEN Cardinality(SeqSet(xs)) = Len(xs)
       ELSE \A x \in SeqSet(xs) : Count(x, xs) <= Count(x, ys)

ApplyCapsHasRun == spc \notin {"start", "ValueError", "loaded", "built"}

\* C13: after apply_caps a cluster of the cap table holds min(cap, original
\* size) images, all from its original list and none more often than there; a
\* cluster not in the cap table holds its original list in the original order;
\* and no image dropped by capping is in any output list.
C13_CapsApplied ==
    ApplyCapsHasRun =>
        /\ Len(capped) = Len(cluster_to_images)
        /\ \A k \in 1 .. Len(capped) :
             /\ capped[k][1] = cluster_to_images[k][1]
             /\ IF Basename(capped[k][1]) \in DOMAIN Caps
                THEN /\ Len(capped[k][2]) =
                          Min(Caps[Basename(capped[k][1])], Len(cluster_to_images[k][2]))
                     /\ spc = "capped" =>
                          NoMoreOftenThan(capped[k][2], cluster_to_images[k][2])
                     /\ spc = "done" =>
                          \A sp \in SplitSet :
                              (SeqSet(cluster_to_images[k][2]) \ SeqSet(capped[k][2]))
                                  \cap SeqSet(out[sp]) = {}
                ELSE capped[k][2] = cluster_to_images[k][2]

\* a finished run in which capping dropped images of one cluster and kept
\* another cluster of the cap table whole
C13_Witness ==
    /\ spc = "done"
    /\ \E k \in 1 .. Len(capped) : Len(capped[k][2]) < Len(cluster_to_images[k][2])
    /\ \E k \in 1 .. Len(capped) :
         /\ Basename(capped[k][1]) \in DOMAIN Caps
         /\ Len(capped[k][2]) = Len(cluster_to_images[k][2])
    /\ \E k \in 1 .. Len(capped) : Basename(capped[k][1]) \notin DOMAIN Caps

\* C14: when the counts table or the assignments table lacks a required
\* column, load_data raises before build_cluster_to_images, apply_caps or
\* allocate_exact_splits runs and before any output is written.
C14_SchemaCheckedFirst ==
    missing # "none" =>
        /\ spc \in {"start", "ValueError"}
        /\ cluster_to_images = <<>>
        /\ capped = <<>>
        /\ allocation = EmptyLists
        /\ trace = <<>>
        /\ out = EmptyLists

\* load_data has raised on a counts table without its columns while the
\* assignments table has rows
C14_Witness ==
    /\ spc = "ValueError"
    /\ missing = "counts"
    /\ assign_rows # <<>>

(***************************************************************************)
(* resolve_cache_paths                                                     *)
(***************************************************************************)
\* the candidate the fixed order selects: the primary file when it exists,
\* else the legacy file when the backend is clip and it exists, else none
ClaimedCache(kind, backend, files) ==
    CASE Primary(kind) \in files -> Primary(kind)
      [] Primary(kind) \notin files /\ backend = "clip" /\ Legacy(kind) \in files
            -> Legacy(kind)
      [] OTHER -> "missing"

DedupeComputed ==
    d_loaded # {} \/ groups # <<>> \/ runs # <<>> \/ records # <<>> \/ keep # <<>>

AssignComputed ==
    a_loaded # {} \/ best_idx # <<>> \/ aruns # <<>> \/ assign_csv # <<>>

\* C15: resolve_cache_paths returns the primary file whenever it exists; when
\* it is absent, the legacy file only if the backend is clip and that file
\* exists; otherwise it raises before any embedding is loaded or any
\* similarity is computed.
C15_CacheResolution ==
    /\ d_real_cache # "unresolved" =>
           d_real_cache = ClaimedCache("real", d_backend, d_files)
    /\ d_loaded \subseteq {ClaimedCache("real", d_backend, d_files)}
    /\ dpc = "FileNotFoundError" => ClaimedCache("real", d_backend, d_files) = "missing"
    /\ ClaimedCache("real", d_backend, d_files) = "missing" =>
           dpc \in {"idle", "FileNotFoundError"} /\ ~DedupeComputed
    /\ unique_cache # "unresolved" =>
           /\ unique_cache = ClaimedCache("unique", a_backend, a_files)
           /\ real_cache = ClaimedCache("real", a_backend, a_files)
           /\ a_loaded = {unique_cache, real_cache}
    /\ apc = "FileNotFoundError" =>
           "missing" \in {ClaimedCache("unique", a_backend, a_files),
                          ClaimedCache("real", a_backend, a_files)}
    /\ "missing" \in {ClaimedCache("unique", a_backend, a_files),
                      ClaimedCache("real", a_backend, a_files)} =>
           apc \in {"main", "FileNotFoundError"} /\ ~AssignComputed

\* assign_clusters.py has finished with the legacy unique cache and with the
\* primary real cache although the legacy real cache exists too
C15_Witness ==
    /\ apc = "done"
    /\ unique_cache = Legacy("unique")
    /\ real_cache = Primary("real")
    /\ Legacy("real") \in a_files

\* C16: when real and unique have different vector widths,
\* compute_argmax_clusters fails before the first chunk is processed, and no
\* per-image result and no output table is produced.
C16_DimensionMismatch ==
    (Len(real) > 0 /\ Len(real[1]) # Len(unique[1])) =>
        /\ apc \in {"main", "idle", "AssertionError"}
        /\ apc = "idle" => chunk_size = 0
        /\ start = 0
        /\ best_idx = <<>>
        /\ best_sim = <<>>
        /\ aruns = <<>>
        /\ assign_csv = <<>>
        /\ counts_csv = <<>>

\* the assertion has failed on MaxReal real vectors
C16_Witness ==
    /\ apc = "AssertionError"
    /\ Len(real) = MaxReal
    /\ Len(real[1]) # Len(unique[1])

(***************************************************************************)
(* write_outputs                                                           *)
(***************************************************************************)
OutputsWritten == dpc \in {"idle", "resolved"} /\ threshold \in DOMAIN runs

\* the members of the groups other than the representatives
NonRepresentatives ==
    UNION {{groups[g][k] : k \in 2 .. Len(groups[g])} : g \in 1 .. Len(groups)}

\* C17: the keep list holds exactly the representatives, one per group in
\* group order; the remove list holds exactly the other members; every input
\* index is in exactly one of the two lists, so |keep| is the number of groups
\* and |keep| + |remove| = N.
C17_KeepAndRemove ==
    OutputsWritten =>
        /\ Len(keep) = Len(groups)
        /\ \A g \in 1 .. Len(groups) : keep[g] = PathOf(groups[g][1])
        /\ SeqSet(remove) = {PathOf(j) : j \in NonRepresentatives}
        /\ \A j \in 0 .. n - 1 : Count(PathOf(j), keep) + Count(PathOf(j), remove) = 1
        /\ Len(keep) + Len(remove) = n

\* the lists are written for MaxN images in two groups, one of them with
\* several members
C17_Witness ==
    /\ OutputsWritten
    /\ n = MaxN
    /\ Len(keep) = 2
    /\ Len(remove) = MaxN - 2

(***************************************************************************)
(* allocate_exact_splits: pinning and the night phase                      *)
(***************************************************************************)
SeparationDone == spc \in {"night", "day", "allocated", "done"}

\* the clusters of capped with basename b
ClustersNamed(b) == {k \in 1 .. Len(capped) : Basename(capped[k][1]) = b}

\* each pinned cluster enters allocation once, at its cap, and the other night
\* clusters hold RemainingNight images
HeaderPrecondition ==
    /\ SeparationDone
    /\ \A b \in DOMAIN capped_assignment :
         /\ Cardinality(ClustersNamed(b)) = 1
         /\ \A k \in ClustersNamed(b) : Len(capped[k][2]) = Caps[b]
    /\ SumSeq([k \in 1 .. Len(night_clusters) |-> night_clusters[k][3]]) = RemainingNight

\* C18: with night_bg_003 = 500 in train, night_bg_002 = 400 in val,
\* night_bg_005 = 400 in test and 465 more night images in any clusters, every
\* remaining night cluster is assigned to train and the night counts end at
\* train 965, val 400, test 400.
C18_HeaderNightCounts ==
    HeaderPrecondition =>
        /\ \A k \in 1 .. Len(trace) : trace[k].phase = "night" => trace[k].split = "train"
        /\ spc # "night" =>
             night_counts = [train |-> HeaderNightTrain, val |-> Cap002, test |-> Cap005]

\* the allocator has returned on a header inventory of at least three
\* remaining night clusters
C18_Witness ==
    /\ HeaderPrecondition
    /\ spc = "allocated"
    /\ Len(night_clusters) >= 3

\* the clusters of the pin table designated for partition sp
PinnedTo(sp) ==
    {k \in 1 .. Len(capped) :
        /\ Basename(capped[k][1]) \in DOMAIN capped_assignment
        /\ capped_assignment[Basename(capped[k][1])] = sp}

\* number of images of the clusters designated for sp
PinnedImages(sp) ==
    SumSeq([k \in 1 .. Len(capped) |-> IF k \in PinnedTo(sp) THEN Len(capped[k][2]) ELSE 0])

\* C19: every cluster of the pin table is owned by its designated partition
\* and by no other, is never a candidate of the night or day phase, and its
\* size is in the total and in the night total of that partition before the
\* first night assignment is decided.
C19_PinnedFirst ==
    SeparationDone =>
        /\ \A sp \in SplitSet : \A k \in PinnedTo(sp) :
             /\ capped[k][1] \in SeqSet(allocation[sp])
             /\ \A other \in SplitSet \ {sp} : capped[k][1] \notin SeqSet(allocation[other])
             /\ capped[k][1] \notin Queued(night_clusters) \cup Queued(day_clusters)
             /\ \A e \in 1 .. Len(trace) :
                  trace[e].key = capped[k][1] =>
                      trace[e].phase = "pin" /\ trace[e].split = sp
        /\ \A a \in 1 .. Len(trace) : \A b \in 1 .. Len(trace) :
             (trace[a].phase = "pin" /\ trace[b].phase # "pin") => a < b
        /\ (spc = "night" /\ pos = 1) =>
             \A sp \in SplitSet :
                 /\ counts[sp] = PinnedImages(sp)
                 /\ night_counts[sp] = PinnedImages(sp)

\* a run has finished in which val owns its pinned cluster of two images and
\* a night and a day cluster were assigned greedily
C19_Witness ==
    /\ spc = "done"
    /\ PinnedImages("val") = 2
    /\ {"night", "day"} \subseteq PhasesOf(trace)

\* the running totals when assignment e of the trace was decided: the sizes of
\* the pinned clusters and of the earlier assignments, by partition
CountsBefore(e) ==
    [sp \in SplitSet |->
        SumSeq([k \in 1 .. e - 1 |-> IF trace[k].split = sp THEN trace[k].size ELSE 0])]

\* the partition of largest target_ratio[p] - counts[p] / sum(counts) in exact
\* arithmetic, the first of train, val, test among equals
LargestDeficit(cnt) ==
    MaxFirst(Deficit100(cnt, "val") > Deficit100(cnt, "train"),
             Deficit100(cnt, "test") > Deficit100(cnt, "train"),
             Deficit100(cnt, "test") > Deficit100(cnt, "val"))

\* C20: every night cluster is assigned to the partition that maximises
\* target_ratio[p] - counts[p] / sum(counts) (ratio 0 when the sum is 0) over
\* the running totals of the pinned clusters and the earlier night
\* assignments, ties going to train, then val, then test.
C20_NightLargestDeficit ==
    \A e \in 1 .. Len(trace) :
        trace[e].phase = "night" => trace[e].split = LargestDeficit(CountsBefore(e))

(***************************************************************************)
(* C21: the day phase                                                      *)
(***************************************************************************)
\* the images of the given phases assigned to each partition before event e
\* of the trace
PhaseCountsBefore(phases, e) ==
    [sp \in SplitSet |->
        SumSeq([k \in 1 .. e - 1 |->
                   IF trace[k].split = sp /\ trace[k].phase \in phases
                   THEN trace[k].size ELSE 0])]

\* position of a partition in the order train, val, test
SplitRank(sp) == CASE sp = "train" -> 1 [] sp = "val" -> 2 [] sp = "test" -> 3

\* the partition of largest nc[p] - dc[p], the first of train, val, test among
\* equals
MostNightHeavy(nc, dc) ==
    CHOOSE p \in SplitSet :
        \A q \in SplitSet :
            \/ nc[p] - dc[p] > nc[q] - dc[q]
            \/ nc[p] - dc[p] = nc[q] - dc[q] /\ SplitRank(p) <= SplitRank(q)

\* C21: every day cluster is assigned to the partition that maximises
\* night_counts[p] - day_counts[p] over the totals of all earlier assignments
\* (ties: train, then val, then test), and the total and the day count of the
\* chosen partition have grown by the cluster's size before the next day
\* cluster is decided; target ratios do not enter the choice.
C21_DayMostNightHeavy ==
    /\ \A e \in 1 .. Len(trace) :
         trace[e].phase = "day" =>
             trace[e].split = MostNightHeavy(PhaseCountsBefore({"pin", "night"}, e),
                                             PhaseCountsBefore({"day"}, e))
    /\ spc \in {"day", "allocated"} =>
         /\ day_counts = PhaseCountsBefore({"day"}, Len(trace) + 1)
         /\ counts = PhaseCountsBefore({"pin", "night", "day"}, Len(trace) + 1)

\* day clusters have gone to all three partitions, one of them on a tie
C21_Witness ==
    /\ spc = "allocated"
    /\ \A sp \in SplitSet : day_counts[sp] > 0
    /\ \E e \in 1 .. Len(trace) :
         /\ trace[e].phase = "day"
         /\ LET nc == PhaseCountsBefore({"pin", "night"}, e)
                dc == PhaseCountsBefore({"day"}, e)
            IN  \E q \in SplitSet \ {trace[e].split} :
                    nc[q] - dc[q] = nc[trace[e].split] - dc[trace[e].split]

(***************************************************************************)
(* C22: phase order                                                        *)
(***************************************************************************)
\* position of a phase in the order pinned, night, day
PhaseRank(ph) == CASE ph = "pin" -> 1 [] ph = "night" -> 2 [] ph = "day" -> 3

\* C22: in the sequence of allocation events every pinned cluster comes before
\* every unpinned night cluster and every night cluster before every day
\* cluster; while the night phase runs every day count is 0; within the night
\* phase and within the day phase sizes never increase.
C22_PhaseOrder ==
    /\ \A e, f \in 1 .. Len(trace) :
         e < f => /\ PhaseRank(trace[e].phase) <= PhaseRank(trace[f].phase)
                  /\ trace[e].phase = trace[f].phase /\ trace[e].phase # "pin"
                         => trace[e].size >= trace[f].size
    /\ spc \in {"separate", "night"} => day_counts = ZeroCounts

\* all three phases have placed clusters, and the mapping listed a smaller
\* night cluster before a larger one and a pinned cluster after an unpinned one
C22_Witness ==
    /\ spc = "allocated"
    /\ PhasesOf(trace) = {"pin", "night", "day"}
    /\ \E a, b \in 1 .. Len(capped) :
         /\ a < b
         /\ QueuedAsNight(Basename(capped[a][1]))
         /\ QueuedAsNight(Basename(capped[b][1]))
         /\ Len(capped[a][2]) < Len(capped[b][2])
    /\ \E a, b \in 1 .. Len(capped) :
         /\ a < b
         /\ ~IsPinned(Basename(capped[a][1]))
         /\ IsPinned(Basename(capped[b][1]))

(***************************************************************************)
(* C23: how a group is formed                                              *)
(***************************************************************************)
\* the indices assigned before group g was formed
AssignedBefore(g) == UNION {SeqSet(groups[h]) : h \in 1 .. g - 1}

\* the indices 0 .. n-1 in the order range_search returns neighbours
ReturnOrder ==
    LET asc == [k \in 1 .. n |-> k - 1]
    IN  IF rs_order = "asc" THEN asc ELSE Reverse(asc)

\* the group the stated rule forms at representative r: r, then every j # r
\* with sim(r, j) >= T that is not in `taken`, in the order returned
StatedGroup(r, T, taken) ==
    <<r>> \o SelectSeq(ReturnOrder,
                       LAMBDA j : j # r /\ SimOf(r, j) >= T /\ j \notin taken)

\* C23: indices are visited in ascending order and assigned ones skipped: the
\* representative of each group is the least index not in an earlier group,
\* and the group is the representative followed by exactly the other indices
\* with similarity >= threshold to it that no earlier group holds, in the
\* order range search returned them.
C23_GroupIsThresholdNeighbourhood ==
    dpc \in {"loop", "write"} =>
        \A g \in 1 .. Len(groups) :
            LET r == groups[g][1]
            IN  /\ r \notin AssignedBefore(g)
                /\ \A j \in 0 .. r - 1 : j \in AssignedBefore(g)
                /\ groups[g] = StatedGroup(r, threshold, AssignedBefore(g))

(***************************************************************************)
(* C27: representatives are not near-duplicates of each other              *)
(***************************************************************************)
\* C27: for any two distinct groups with representatives a and b,
\* sim(a, b) < threshold, so no pair of the keep list is at or above the
\* threshold.
C27_RepresentativesApart ==
    /\ dpc \in {"loop", "write"} =>
         \A g, h \in 1 .. Len(groups) :
             g # h => SimOf(groups[g][1], groups[h][1]) < threshold
    /\ OutputsWritten =>
         \A a, b \in 0 .. n - 1 :
             a # b /\ {PathOf(a), PathOf(b)} \subseteq SeqSet(keep)
                 => SimOf(a, b) < threshold

(***************************************************************************)
(* C24: no stage changes its input                                         *)
(***************************************************************************)
\* C24: apply_caps leaves the mapping it receives as it was (same keys, same
\* image lists in the same order, capped clusters included), and
\* allocate_exact_splits and write_splits leave the capped mapping as it was,
\* the output shuffle included.
C24_InputsNotMutated ==
    [][/\ spc = "built" => cluster_to_images' = cluster_to_images
       /\ spc \in {"capped", "separate", "night", "day", "allocated"}
              => capped' = capped]_vars

\* a run is complete in which capping shortened a cluster and the output
\* shuffle reordered the images of train
C24_Witness ==
    /\ spc = "done"
    /\ \E k \in 1 .. Len(capped) : Len(capped[k][2]) < Len(cluster_to_images[k][2])
    /\ out.train # SplitImages(allocation, capped, "train")
    /\ cluster_to_images = BuildClusterToImages(assign_rows)

(***************************************************************************)
(* C25: the running totals                                                 *)
(***************************************************************************)
\* the images of the capped mapping
ImagesAfterCapping == SumSeq([k \in 1 .. Len(capped) |-> Len(capped[k][2])])

\* the sizes, after capping, of the clusters allocation[sp] holds
OwnedImages(sp) ==
    SumSeq([k \in 1 .. Len(allocation[sp]) |-> Len(DictGet(capped, allocation[sp][k]))])

\* C25: in every state of allocate_exact_splits and for every partition p,
\* counts[p] = day_counts[p] + night_counts[p] and counts[p] is the sum of the
\* sizes after capping of the clusters in allocation[p]; at return the three
\* totals sum to the number of images left after capping, and write_splits
\* writes that many paths.
C25_RunningTotals ==
    /\ spc \in {"separate", "night", "day", "allocated", "done"} =>
         \A sp \in SplitSet :
             /\ counts[sp] = day_counts[sp] + night_counts[sp]
             /\ counts[sp] = OwnedImages(sp)
    /\ spc \in {"allocated", "done"} =>
         counts.train + counts.val + counts.test = ImagesAfterCapping
    /\ spc = "done" =>
         Len(out.train) + Len(out.val) + Len(out.test) = ImagesAfterCapping

\* the files are written, capping removed images, every partition holds
\* night images, one holds day images too and one owns several clusters
C25_Witness ==
    /\ spc = "done"
    /\ ImagesAfterCapping < Len(assign_rows)
    /\ \A sp \in SplitSet : night_counts[sp] > 0
    /\ \E sp \in SplitSet : day_counts[sp] > 0
    /\ \E sp \in SplitSet : Len(allocation[sp]) > 1

(***************************************************************************)
(* C26: the allocation terminates with every cluster owned                 *)
(***************************************************************************)
\* the cluster keys all three partitions own, train first
OwnedKeys == allocation.train \o allocation.val \o allocation.test

\* C26: once allocate_exact_splits is entered it returns; at return every
\* cluster key of its input is owned by exactly one of train, val and test,
\* and every cluster was decided exactly once.
C26_TerminatesWithAllOwned ==
    /\ (spc = "capped") ~> (spc = "allocated")
    /\ [](spc = "allocated" =>
            /\ \A k \in 1 .. Len(capped) : Count(capped[k][1], OwnedKeys) = 1
            /\ Len(OwnedKeys) = Len(capped)
            /\ Len(trace) = Len(capped)
            /\ \A k \in 1 .. Len(capped) :
                   Count(capped[k][1], [e \in 1 .. Len(trace) |-> trace[e].key]) = 1)

\* the allocation has returned for pinned, night and day clusters, one of the
\* day clusters with a name that starts with neither day_bg_ nor night_bg_
C26_Witness ==
    /\ spc = "allocated"
    /\ PhasesOf(trace) = {"pin", "night", "day"}
    /\ \E k \in 1 .. Len(capped) : ~Conforms(Basename(capped[k][1]))

(***************************************************************************)
(* C28: the night phase never overfills a partition                        *)
(***************************************************************************)
\* the sum of the three totals
TotalOf(cnt) == cnt.train + cnt.val + cnt.test

\* C28: whenever a night cluster is assigned while the running total is
\* positive, the deficit of the chosen partition (target ratio minus current
\* share) is not negative, both as a real number and as the double the script
\* computes: the partition's share does not exceed its target ratio.
C28_NightDeficitNotNegative ==
    \A e \in 1 .. Len(trace) :
        LET before == CountsBefore(e)
        IN  trace[e].phase = "night" /\ TotalOf(before) > 0 =>
                /\ Deficit100(before, trace[e].split) >= 0
                /\ Deficit(before, trace[e].split)[1] = 1

\* a night cluster was assigned while the share of another partition was
\* above its target, and one went to a partition other than train
C28_Witness ==
    /\ \E e \in 1 .. Len(trace) :
         /\ trace[e].phase = "night"
         /\ TotalOf(CountsBefore(e)) > 0
         /\ \E sp \in SplitSet : Deficit100(CountsBefore(e), sp) < 0
    /\ \E e \in 1 .. Len(trace) :
         /\ trace[e].phase = "night"
         /\ TotalOf(CountsBefore(e)) > 0
         /\ trace[e].split # "train"

(***************************************************************************)
(* C29: inventory order matters only through size ties                     *)
(***************************************************************************)
\* position of a cluster key in a mapping
PositionIn(d, key) == CHOOSE k \in 1 .. Len(d) : d[k][1] = key

\* no two night clusters and no two day clusters of the greedy phases of
\* mapping d have the same size
NoSizeTies(d) ==
    \A a, b \in 1 .. Len(d) :
        /\ a # b
        /\ Len(d[a][2]) = Len(d[b][2])
        /\ ~IsPinned(Basename(d[a][1]))
        /\ ~IsPinned(Basename(d[b][1]))
        => IsNight(Basename(d[a][1])) # IsNight(Basename(d[b][1]))

\* mapping d with its entries in other orders: reversed, rotated, and with two
\* neighbours exchanged
Reorderings(d) ==
    {Reverse(d)}
        \cup {[k \in 1 .. Len(d) |-> d[((k - 1 + r) % Len(d)) + 1]] : r \in 1 .. Len(d) - 1}
        \cup {[k \in 1 .. Len(d) |->
                  IF k = a THEN d[a + 1] ELSE IF k = a + 1 THEN d[a] ELSE d[k]] :
              a \in 1 .. Len(d) - 1}

\* the clusters each partition owns
Ownership(alloc) == [sp \in SplitSet |-> SeqSet(alloc[sp])]

\* C29: within the night phase and within the day phase, clusters of equal
\* size are processed in the order in which they first appear in the mapping;
\* the allocation is a function of the mapping alone, and when no two clusters
\* of a phase have the same size, giving the same clusters in another order
\* leaves every partition with the same clusters.
C29_OrderOnlyThroughTies ==
    /\ \A e, f \in 1 .. Len(trace) :
         /\ e < f
         /\ trace[e].phase = trace[f].phase
         /\ trace[e].phase # "pin"
         /\ trace[e].size = trace[f].size
         => PositionIn(capped, trace[e].key) < PositionIn(capped, trace[f].key)
    /\ spc = "allocated" =>
         /\ allocation = AllocateExactSplits(capped).allocation
         /\ NoSizeTies(capped) =>
                \A d \in Reorderings(capped) :
                    Ownership(AllocateExactSplits(d).allocation) = Ownership(allocation)

\* the allocation has returned for a mapping that lists two night clusters of
\* equal size, for which another order changes the owners
C29_Witness ==
    /\ spc = "allocated"
    /\ \E e, f \in 1 .. Len(trace) :
         /\ e < f
         /\ trace[e].phase = "night" /\ trace[f].phase = "night"
         /\ trace[e].size = trace[f].size
         /\ trace[e].split # trace[f].split
    /\ \E d \in Reorderings(capped) :
         Ownership(AllocateExactSplits(d).allocation) # Ownership(allocation)

(***************************************************************************)
(* C30: the audit statistics describe the inventory processed              *)
(***************************************************************************)
\* the clusters capping shortened, as positions of the mapping
ShrunkClusters == {k \in 1 .. Len(capped) : Len(capped[k][2]) < Len(cluster_to_images[k][2])}

\* C30: when the statistics are printed, the reported number of intact
\* clusters is the number of clusters capping did not shorten, the reported
\* number of capped clusters is the number it did shorten (and the reported
\* number of clusters split across partitions is the number of clusters with
\* images in more than one output list).
C30_AuditCountsMatchInventory ==
    spc = "done" =>
        /\ ReportedIntact = Len(capped) - Cardinality(ShrunkClusters)
        /\ ReportedCapped = Cardinality(ShrunkClusters)
        /\ ReportedSplitAcross =
               Cardinality({k \in 1 .. Len(capped) :
                   Cardinality({sp \in SplitSet :
                       SeqSet(capped[k][2]) \cap SeqSet(out[sp]) # {}}) > 1})

====
